---- MODULE Spec2Model ----
(***************************************************************************)
(* BERTTraining (src/train_bert.py): the training loop of a BERT model     *)
(* with the joint NSP + MLM loss, its running metrics and its log lines.   *)
(*                                                                         *)
(* Tensors are functions over 1..n.  A Python float is an exact fraction   *)
(* <<num, den>> in lowest terms with den > 0; <<0, 0>> is NaN (the 0/0 of  *)
(* a mean over no elements).  The network is an external collaborator: its *)
(* outputs are chosen freely among the one-hot logit vectors.              *)
(***************************************************************************)
EXTENDS Integers, Sequences, FiniteSets, TLC

\* ------------------------------------------------------------- bounds
MaxBatches == 3
MaxLogFreq == 2
MaxEpochs == 2
MaxBatchSize == 2
MaxSeqLen == 3
MaxTok == 1

VARIABLES
  \* main's configuration: epochs, len(data_loader), the trainer's log_freq,
  \* the loader's batch size, the data set's sequence length
  epochs, n_batches, log_freq, batch_size, seq_len,
  \* self.criterion, self.optimizer; the model's parameters as the sequence of
  \* updates applied to them; their .grad as the batches accumulated in it
  criterion, optimizer, params, grad,
  \* the position in main and train, main's epoch, enumerate's counter
  pc, epoch, i,
  \* the locals of train
  is_next, mask_ids, NSP_output, MLM_output,
  NSP_loss, MLM_loss, loss,
  avg_loss, total_correct_NSP, total_element_NSP,
  total_correct_MLM, total_element_MLM,
  \* standard output of the current call: the number of batch lines and of
  \* epoch lines printed, and the last line printed
  n_log, n_sum, last_line,
  \* history of the current call: each batch's loss.item(), and the indices of
  \* the batches whose mask_ids were all 0
  losses, blank

config == <<epochs, n_batches, log_freq, batch_size, seq_len>>
objects == <<criterion, optimizer, params, grad>>
batch == <<is_next, mask_ids>>
outputs == <<NSP_output, MLM_output>>
terms == <<NSP_loss, MLM_loss, loss>>
counters == <<total_correct_NSP, total_element_NSP, total_correct_MLM, total_element_MLM>>
stdout == <<n_log, n_sum, last_line>>
ghosts == <<losses, blank>>
vars == <<config, objects, pc, epoch, i, batch, outputs, terms, avg_loss,
          counters, stdout, ghosts>>

\* ------------------------------------------------------------- floats
NaN == <<0, 0>>

IsNaN(x) == x[2] = 0

RECURSIVE GCD(_, _)
GCD(a, b) == IF b = 0 THEN a ELSE GCD(b, a % b)

Frac(n, d) == LET g == GCD(n, d) IN <<n \div g, d \div g>>

FAdd(x, y) ==
  IF IsNaN(x) \/ IsNaN(y) THEN NaN
  ELSE Frac(x[1] * y[2] + y[1] * x[2], x[2] * y[2])

\* x / n for a float x and an integer n # 0
FDiv(x, n) == IF IsNaN(x) \/ n = 0 THEN NaN ELSE Frac(x[1], x[2] * n)

\* Python raises ZeroDivisionError on a zero divisor, int or float
ZeroDivision_quiet(den) == FALSE

ZeroDivision(den) == den = 0

\* ------------------------------------------------------------- tensors
Vocab == 0 .. MaxTok

NSPClasses == 0 .. 1

OneHot(C, c) == [k \in C |-> IF k = c THEN 1 ELSE 0]

Logits(C) == {OneHot(C, c) : c \in C}

\* tensor.argmax(dim=-1): the first index holding the maximum
Argmax(v) ==
  CHOOSE c \in DOMAIN v :
    /\ \A k \in DOMAIN v : v[k] <= v[c]
    /\ \A k \in DOMAIN v : k < c => v[k] < v[c]

\* tensor.view(-1) of a (rows, cols) tensor: row-major
Flatten(t) ==
  IF Len(t) = 0 THEN <<>>
  ELSE LET cols == Len(t[1])
       IN [k \in 1 .. Len(t) * cols |-> t[((k - 1) \div cols) + 1][((k - 1) % cols) + 1]]

RECURSIVE SumSeq(_)
SumSeq(s) == IF Len(s) = 0 THEN 0 ELSE s[1] + SumSeq(Tail(s))

\* tensor[mask]: the elements at the TRUE positions, in row-major order
RECURSIVE Pick(_, _)
Pick(t, m) ==
  IF Len(t) = 0 THEN <<>>
  ELSE (IF m[1] THEN <<t[1]>> ELSE <<>>) \o Pick(Tail(t), Tail(m))

Index(t, mask) == Pick(Flatten(t), Flatten(mask))

\* ------------------------------------------------------------- criterion
\* torch.nn.CrossEntropyLoss(ignore_index): the mean, over the targets that are
\* not ignore_index, of logsumexp(logits) - logits[target].  LogSumExp is an
\* integer stand-in above the largest logit, so a loss is positive and falls as
\* the target's logit rises.
LogSumExp(v) == v[Argmax(v)] + 1

NLL(v, t) == LogSumExp(v) - v[t]

Mean_zero(sum, n) == IF n = 0 THEN <<0, 1>> ELSE Frac(sum, n)

Mean(sum, n) == IF n = 0 THEN NaN ELSE Frac(sum, n)

Kept(target, ignore_index) == {k \in DOMAIN target : target[k] # ignore_index}

CrossEntropy(output, target, ignore_index) ==
  LET kept == Kept(target, ignore_index)
      item == [k \in 1 .. Len(target) |->
                 IF k \in kept THEN NLL(output[k], target[k]) ELSE 0]
  IN [n |-> Cardinality(kept), val |-> Mean(SumSeq(item), Cardinality(kept))]

\* ------------------------------------------------------------- optimizer
ZeroGrad_skip(g) == g

\* optimizer.zero_grad()
ZeroGradOp(g) == <<>>

\* loss.backward(): adds this batch's gradient to what .grad holds
BackwardOp(g, tag) == Append(g, tag)

\* ------------------------------------------------------------- metrics
CorrectNSP(out, target) ==
  Cardinality({k \in DOMAIN target : Argmax(out[k]) = target[k]})

NElement_unmasked(t) == Cardinality({k \in DOMAIN t : t[k] # 0})

NElement(t) == Len(t)

MLMPred(out) == [r \in DOMAIN out |-> [p \in DOMAIN out[r] |-> Argmax(out[r][p])]]

Mask_none(ids) == [r \in DOMAIN ids |-> [p \in DOMAIN ids[r] |-> TRUE]]

Mask(ids) == [r \in DOMAIN ids |-> [p \in DOMAIN ids[r] |-> ids[r][p] # 0]]

CorrectMLM(pred, ids, mask) ==
  LET a == Index(pred, mask)
      b == Index(ids, mask)
  IN Cardinality({k \in DOMAIN a : a[k] = b[k]})

MaskSum(mask) == Len(Index(mask, mask))

\* ------------------------------------------------------------- log lines
\* f"{c / t * 100:.2f}": hundredths of a percent, rounded half to even
Pct(c, t) ==
  IF t = 0 THEN 0 - 1
  ELSE LET x == c * 10000
           q == x \div t
           r == x % t
       IN IF 2 * r > t \/ (2 * r = t /\ q % 2 = 1) THEN q + 1 ELSE q

ShouldLog_next(idx, freq) == (idx + 1) % freq = 0

ShouldLog(idx, freq) == idx % freq = 0

RunningAvg_index(sum, idx) == FDiv(sum, idx)

RunningAvg(sum, idx) == FDiv(sum, idx + 1)

EpochAvg_plus(sum, n) == FDiv(sum, n + 1)

EpochAvg(sum, n) == FDiv(sum, n)

NoLine == [kind |-> "none"]

BatchLine ==
  [kind |-> "batch", idx |-> i,
   AvgLoss |-> RunningAvg(avg_loss, i),
   AccuracyNSP |-> Pct(total_correct_NSP, total_element_NSP),
   AccuracyMLM |-> Pct(total_correct_MLM, total_element_MLM),
   Loss |-> loss]

EpochLine ==
  [kind |-> "epoch", Epoch |-> epoch,
   TotalLoss |-> EpochAvg(avg_loss, n_batches),
   AccuracyNSP |-> Pct(total_correct_NSP, total_element_NSP),
   AccuracyMLM |-> Pct(total_correct_MLM, total_element_MLM)]

\* ------------------------------------------------------------- configurations
\* main(): the trainer's log_freq, the loader's length and batch size, the
\* data set's sequence length, the number of epochs.  Three families keep the
\* state space small: one long epoch of unit batches, several epochs of one
\* unit batch, and one epoch of one wide batch.
Cfg(e, n, f, b, s) ==
  [epochs |-> e, n_batches |-> n, log_freq |-> f, batch_size |-> b, seq_len |-> s]

Long == {Cfg(1, n, f, 1, 1) : n \in 0 .. MaxBatches, f \in 1 .. MaxLogFreq}

Repeated == {Cfg(e, 1, 1, 1, 1) : e \in 2 .. MaxEpochs}

Wide == {Cfg(1, 1, 1, b, 1) : b \in 2 .. MaxBatchSize}
        \cup {Cfg(1, 1, 1, 1, s) : s \in 2 .. MaxSeqLen}

Configs == Long \cup Repeated \cup Wide

FreshCount_keep(prev) == prev

\* total_correct_NSP = 0 and its three siblings, at the top of train
FreshCount(prev) == 0

FreshLoss(prev) == <<0, 1>>

\* the last batch of a DataLoader (drop_last=False) may be short
BatchSizes == IF i = n_batches - 1 THEN 1 .. batch_size ELSE {batch_size}

Tag == <<epoch, i>>

\* ------------------------------------------------------------- actions
Init ==
  /\ \E c \in Configs :
       /\ epochs = c.epochs
       /\ n_batches = c.n_batches
       /\ log_freq = c.log_freq
       /\ batch_size = c.batch_size
       /\ seq_len = c.seq_len
  /\ criterion = [id |-> "criterion", ignore_index |-> 0]
  /\ optimizer = [id |-> "optimizer", steps |-> 0]
  /\ params = <<>>
  /\ grad = <<>>
  /\ pc = "idle"
  /\ epoch = 0
  /\ i = 0
  /\ is_next = <<>>
  /\ mask_ids = <<>>
  /\ NSP_output = <<>>
  /\ MLM_output = <<>>
  /\ NSP_loss = [n |-> 0, val |-> NaN]
  /\ MLM_loss = [n |-> 0, val |-> NaN]
  /\ loss = NaN
  /\ avg_loss = <<0, 1>>
  /\ total_correct_NSP = 0
  /\ total_element_NSP = 0
  /\ total_correct_MLM = 0
  /\ total_element_MLM = 0
  /\ n_log = 0
  /\ n_sum = 0
  /\ last_line = NoLine
  /\ losses = <<>>
  /\ blank = {}

\* main's loop calls train(epoch, train_loader); train zeroes its accumulators
TrainBegin ==
  /\ pc = "idle"
  /\ epoch < epochs
  /\ avg_loss' = FreshLoss(avg_loss)
  /\ total_correct_NSP' = FreshCount(total_correct_NSP)
  /\ total_element_NSP' = FreshCount(total_element_NSP)
  /\ total_correct_MLM' = FreshCount(total_correct_MLM)
  /\ total_element_MLM' = FreshCount(total_element_MLM)
  /\ i' = 0
  /\ n_log' = 0
  /\ n_sum' = 0
  /\ last_line' = NoLine
  /\ losses' = <<>>
  /\ blank' = {}
  /\ pc' = "fetch"
  /\ UNCHANGED <<config, objects, epoch, batch, outputs, terms>>

\* for i, data in enumerate(data_loader): the next batch
Fetch ==
  /\ pc = "fetch"
  /\ i < n_batches
  /\ \E b \in BatchSizes :
       /\ is_next' \in [1 .. b -> NSPClasses]
       /\ mask_ids' \in [1 .. b -> [1 .. seq_len -> Vocab]]
  /\ pc' = "forward"
  /\ UNCHANGED <<config, objects, epoch, i, outputs, terms, avg_loss, counters,
                 stdout, ghosts>>

\* the loader is exhausted
LoopExit ==
  /\ pc = "fetch"
  /\ i = n_batches
  /\ pc' = "summary"
  /\ UNCHANGED <<config, objects, epoch, i, batch, outputs, terms, avg_loss,
                 counters, stdout, ghosts>>

Forward ==
  /\ pc = "forward"
  /\ NSP_output' \in [1 .. Len(is_next) -> Logits(NSPClasses)]
  /\ MLM_output' \in [1 .. Len(is_next) -> [1 .. seq_len -> Logits(Vocab)]]
  /\ pc' = "loss"
  /\ UNCHANGED <<config, objects, epoch, i, batch, terms, avg_loss, counters,
                 stdout, ghosts>>

Loss ==
  /\ pc = "loss"
  /\ NSP_loss' = CrossEntropy(NSP_output, is_next, criterion.ignore_index)
  /\ MLM_loss' = CrossEntropy(Flatten(MLM_output), Flatten(mask_ids),
                              criterion.ignore_index)
  /\ loss' = FAdd(NSP_loss'.val, MLM_loss'.val)
  /\ avg_loss' = FAdd(avg_loss, loss')
  /\ losses' = Append(losses, loss')
  /\ blank' = IF \A r \in DOMAIN mask_ids : \A p \in DOMAIN mask_ids[r] :
                    mask_ids[r][p] = 0
              THEN blank \cup {i} ELSE blank
  /\ pc' = "zero_grad"
  /\ UNCHANGED <<config, objects, epoch, i, batch, outputs, counters, stdout>>

ZeroGrad ==
  /\ pc = "zero_grad"
  /\ grad' = ZeroGradOp(grad)
  /\ pc' = "backward"
  /\ UNCHANGED <<config, criterion, optimizer, params, epoch, i, batch, outputs,
                 terms, avg_loss, counters, stdout, ghosts>>

Backward ==
  /\ pc = "backward"
  /\ grad' = BackwardOp(grad, Tag)
  /\ pc' = "step"
  /\ UNCHANGED <<config, criterion, optimizer, params, epoch, i, batch, outputs,
                 terms, avg_loss, counters, stdout, ghosts>>

OptStep ==
  /\ pc = "step"
  /\ params' = Append(params, grad)
  /\ optimizer' = [optimizer EXCEPT !.steps = @ + 1]
  /\ pc' = "metrics"
  /\ UNCHANGED <<config, criterion, grad, epoch, i, batch, outputs, terms,
                 avg_loss, counters, stdout, ghosts>>

Metrics ==
  /\ pc = "metrics"
  /\ total_correct_NSP' = total_correct_NSP + CorrectNSP(NSP_output, is_next)
  /\ total_element_NSP' = total_element_NSP + NElement(is_next)
  /\ LET MLM_pred == MLMPred(MLM_output)
         mask == Mask(mask_ids)
     IN /\ total_correct_MLM' = total_correct_MLM + CorrectMLM(MLM_pred, mask_ids, mask)
        /\ total_element_MLM' = total_element_MLM + MaskSum(mask)
  /\ pc' = "log"
  /\ UNCHANGED <<config, objects, epoch, i, batch, outputs, terms, avg_loss,
                 stdout, ghosts>>

\* a ZeroDivisionError leaves train and main: nothing catches it
Raise ==
  /\ pc' = "raised"
  /\ UNCHANGED <<config, objects, epoch, i, batch, outputs, terms, avg_loss,
                 counters, stdout, ghosts>>

Log ==
  /\ pc = "log"
  /\ IF ShouldLog(i, log_freq)
     THEN IF \/ ZeroDivision(i + 1)
             \/ ZeroDivision(total_element_NSP)
             \/ ZeroDivision(total_element_MLM)
          THEN Raise
          ELSE /\ last_line' = BatchLine
               /\ n_log' = n_log + 1
               /\ i' = i + 1
               /\ pc' = "fetch"
               /\ UNCHANGED <<config, objects, epoch, batch, outputs, terms,
                              avg_loss, counters, n_sum, ghosts>>
     ELSE /\ i' = i + 1
          /\ pc' = "fetch"
          /\ UNCHANGED <<config, objects, epoch, batch, outputs, terms, avg_loss,
                         counters, stdout, ghosts>>

Summary ==
  /\ pc = "summary"
  /\ IF \/ ZeroDivision(n_batches)
        \/ ZeroDivision(total_element_NSP)
        \/ ZeroDivision(total_element_MLM)
     THEN Raise
     ELSE /\ last_line' = EpochLine
          /\ n_sum' = n_sum + 1
          /\ pc' = "return"
          /\ UNCHANGED <<config, objects, epoch, i, batch, outputs, terms,
                         avg_loss, counters, n_log, ghosts>>

\* train returns; main's for loop advances
Return ==
  /\ pc = "return"
  /\ epoch' = epoch + 1
  /\ pc' = "idle"
  /\ UNCHANGED <<config, objects, i, batch, outputs, terms, avg_loss, counters,
                 stdout, ghosts>>

\* main saves the model and prints 'Training completed'
Finish ==
  /\ pc = "idle"
  /\ epoch = epochs
  /\ pc' = "done"
  /\ UNCHANGED <<config, objects, epoch, i, batch, outputs, terms, avg_loss,
                 counters, stdout, ghosts>>

Next ==
  \/ TrainBegin
  \/ Fetch
  \/ LoopExit
  \/ Forward
  \/ Loss
  \/ ZeroGrad
  \/ Backward
  \/ OptStep
  \/ Metrics
  \/ Log
  \/ Summary
  \/ Return
  \/ Finish

Spec == Init /\ [][Next]_vars

\* ------------------------------------------------------------- properties
InBatch == {"zero_grad", "backward", "step", "metrics", "log"}

InCall == {"fetch", "forward", "loss", "summary", "return", "raised"} \cup InBatch

\* the exception came out of the log line of batch i (not out of the summary)
RaisedAtLog == pc = "raised" /\ i < n_batches

\* batches of this call whose metrics have been added
Counted == IF pc = "log" \/ RaisedAtLog THEN i + 1 ELSE i

\* batches of this call whose log point has been passed
LogPointsPassed == IF RaisedAtLog THEN i + 1 ELSE i

Positions == {q \in (DOMAIN mask_ids) \X (1 .. seq_len) : TRUE}

Masked == {q \in Positions : mask_ids[q[1]][q[2]] # 0}

AllSentinel == Masked = {}

\* the exact sum of a sequence of floats as an unreduced <<num, den>>; den = 0
\* when a term is NaN
RECURSIVE RSum(_)
RSum(s) ==
  IF Len(s) = 0 THEN <<0, 1>>
  ELSE LET r == RSum(Tail(s))
       IN <<s[1][1] * r[2] + r[1] * s[1][2], s[1][2] * r[2]>>

\* x is the float sum(s) / n
IsAverage(x, s, n) ==
  LET r == RSum(s)
  IN IF r[2] = 0 THEN IsNaN(x)
     ELSE /\ ~IsNaN(x)
          /\ x[1] * r[2] * n = r[1] * x[2]

\* C1: a batch adds to total_element_MLM the number of positions whose mask_ids
\* is not 0, and to total_correct_MLM the number of those positions where the
\* argmax of MLM_output equals mask_ids; a position with mask_ids = 0 counts in
\* neither, whatever is predicted there; no other step of the loop touches them.
C1_MLMCountsOnlyMasked ==
  [][/\ pc = "metrics" =>
          /\ total_element_MLM' = total_element_MLM + Cardinality(Masked)
          /\ total_correct_MLM' = total_correct_MLM + Cardinality(
               {q \in Masked : Argmax(MLM_output[q[1]][q[2]]) = mask_ids[q[1]][q[2]]})
     /\ pc \in (InCall \ {"metrics"}) =>
          /\ total_element_MLM' = total_element_MLM
          /\ total_correct_MLM' = total_correct_MLM]_vars

\* C1 witness: mask_ids = [0,1,0], predicted [0,1,_]: position 1 predicts the
\* sentinel where mask_ids is the sentinel, and only position 2 is counted.
C1_Witness ==
  /\ pc = "log"
  /\ mask_ids = <<<<0, 1, 0>>>>
  /\ Argmax(MLM_output[1][1]) = 0
  /\ Argmax(MLM_output[1][2]) = 1
  /\ total_correct_MLM = 1
  /\ total_element_MLM = 1

\* C2: every batch adds its batch size to total_element_NSP, whatever mask_ids
\* and is_next hold, and adds to total_correct_NSP the number of examples whose
\* argmax NSP class equals is_next; the counters start a call at zero and no
\* other step of the loop touches them.
C2_NSPCountsEveryExample ==
  [][/\ pc = "metrics" =>
          /\ total_element_NSP' = total_element_NSP + Len(is_next)
          /\ total_correct_NSP' = total_correct_NSP + Cardinality(
               {k \in 1 .. Len(is_next) : Argmax(NSP_output[k]) = is_next[k]})
     /\ pc \in (InCall \ {"metrics"}) =>
          /\ total_element_NSP' = total_element_NSP
          /\ total_correct_NSP' = total_correct_NSP
     /\ pc = "idle" /\ pc' = "fetch" =>
          /\ total_element_NSP' = 0
          /\ total_correct_NSP' = 0]_vars

\* C2 witness: a batch of two examples, both labelled 0 and without a masked
\* position, has been counted as two.
C2_Witness ==
  /\ pc = "log"
  /\ is_next = <<0, 0>>
  /\ mask_ids = <<<<0>>, <<0>>>>
  /\ total_element_NSP = 2

\* C3: every example of a batch feeds the NSP loss term: the loss averages over
\* as many examples as the NSP accuracy denominator counts for the batch.
C3_EveryExampleFeedsNSPLoss ==
  pc \in InBatch => NSP_loss.n = Len(is_next)

\* C4: the running average loss of a log line for batch index n - 1 is the sum
\* of the first n per-batch losses divided by n, whatever log_freq is.
C4_RunningAverage ==
  last_line.kind = "batch" =>
    /\ last_line.idx + 1 <= Len(losses)
    /\ IsAverage(last_line.AvgLoss, SubSeq(losses, 1, last_line.idx + 1),
                 last_line.idx + 1)

\* C4 witness: losses 2, 3, 4 and log_freq 2: the line at index 2 reports 3.
C4_Witness ==
  /\ log_freq = 2
  /\ losses = <<<<2, 1>>, <<3, 1>>, <<4, 1>>>>
  /\ last_line.kind = "batch"
  /\ last_line.idx = 2
  /\ last_line.AvgLoss = <<3, 1>>

\* C5 as stated: the batch indices whose log point has been passed and that
\* got a log line are exactly those with i mod log_freq = 0.
C5_LineIffMultiple ==
  pc \in InCall =>
    n_log = Cardinality({j \in 0 .. LogPointsPassed - 1 : j % log_freq = 0})

\* C5 amended: a log line is emitted for batch index i iff i mod log_freq = 0
\* and total_element_MLM is not zero after the batch's metrics update; it is
\* emitted after the batch's training step and metrics update and reports the
\* totals including the batch.  When i mod log_freq = 0 and total_element_MLM
\* is zero (index 0 only) the call raises instead and emits nothing.
C5_LineIffMultipleAndMasked ==
  /\ [](pc \in InCall =>
          /\ n_log = Cardinality({j \in 0 .. i - 1 : j % log_freq = 0})
          /\ RaisedAtLog => i = 0 /\ total_element_MLM = 0)
  /\ [][pc = "log" =>
          /\ i % log_freq = 0 /\ total_element_MLM # 0 =>
               /\ n_log' = n_log + 1
               /\ last_line'.kind = "batch"
               /\ last_line'.idx = i
               /\ last_line'.Loss = loss
               /\ last_line'.AccuracyNSP = Pct(total_correct_NSP, total_element_NSP)
               /\ last_line'.AccuracyMLM = Pct(total_correct_MLM, total_element_MLM)
               /\ Len(losses) = i + 1
               /\ optimizer.steps = epoch * n_batches + i + 1
               /\ pc' = "fetch"
          /\ i % log_freq = 0 /\ total_element_MLM = 0 =>
               /\ pc' = "raised"
               /\ UNCHANGED stdout
          /\ i % log_freq # 0 =>
               /\ pc' = "fetch"
               /\ UNCHANGED stdout
     ]_vars
  /\ [][(pc \in InCall \ {"log", "summary"}) => (n_log' = n_log)]_vars

\* C5 witness: three batches, log_freq 2: lines for indices 0 and 2 only.
C5_Witness ==
  /\ n_batches = 3
  /\ log_freq = 2
  /\ pc = "summary"
  /\ n_log = 2
  /\ last_line.idx = 2

\* C6 as stated: every train call that has ended has emitted exactly one
\* epoch-summary line.
C6_OneSummaryPerCall ==
  pc \in {"return", "raised"} => n_sum = 1

\* C6 amended: a call that returns has emitted exactly one epoch-summary line,
\* as its last line, after every batch was trained on and logged, reporting the
\* sum of the pass's losses divided by its number of batches; a call returns
\* iff the data source is not empty and its first batch has a masked position,
\* and otherwise raises without a summary line.
C6_OneSummaryPerReturn ==
  /\ pc \in (InCall \ {"return"}) => n_sum = 0
  /\ pc = "return" =>
       /\ n_sum = 1
       /\ last_line.kind = "epoch"
       /\ last_line.Epoch = epoch
       /\ i = n_batches
       /\ Len(losses) = n_batches
       /\ optimizer.steps = (epoch + 1) * n_batches
       /\ n_log = Cardinality({j \in 0 .. n_batches - 1 : j % log_freq = 0})
       /\ IsAverage(last_line.TotalLoss, losses, n_batches)
       /\ n_batches > 0
       /\ 0 \notin blank
  /\ pc = "raised" => n_batches = 0 \/ (i = 0 /\ 0 \in blank)
  /\ pc = "summary" /\ n_batches > 0 => 0 \notin blank

\* C6 witness: three batches with losses 2, 3, 4: the summary reports 3.
C6_Witness ==
  /\ pc = "return"
  /\ n_batches = 3
  /\ losses = <<<<2, 1>>, <<3, 1>>, <<4, 1>>>>
  /\ last_line.TotalLoss = <<3, 1>>

\* the tag of the k-th batch trained on since construction
TagOf(k) == <<(k - 1) \div n_batches, (k - 1) % n_batches>>

\* C7: a batch's steps run in the order forward, loss, clear gradients,
\* back-propagate, optimizer update, each once, before the next batch is
\* fetched; the k-th update applies the gradient of the k-th batch alone, and
\* after n batches n updates have been applied.
C7_StepOrder ==
  /\ [](/\ optimizer.steps = Len(params)
        /\ \A k \in 1 .. Len(params) : params[k] = <<TagOf(k)>>
        /\ pc \in InCall =>
             Len(params) = epoch * n_batches
                           + (IF pc = "metrics" THEN i + 1 ELSE Counted)
        /\ pc \in {"idle", "done"} => Len(params) = epoch * n_batches)
  /\ [][/\ pc = "fetch" => pc' \in {"forward", "summary"}
        /\ pc = "forward" => pc' = "loss" /\ grad' = grad /\ params' = params
        /\ pc = "loss" => pc' = "zero_grad" /\ grad' = grad /\ params' = params
        /\ pc = "zero_grad" => pc' = "backward" /\ grad' = <<>> /\ params' = params
        /\ pc = "backward" => pc' = "step" /\ grad' = <<Tag>> /\ params' = params
        /\ pc = "step" => pc' = "metrics" /\ params' = Append(params, <<Tag>>)
        /\ pc = "metrics" => pc' = "log" /\ params' = params
        /\ pc = "log" => pc' \in {"fetch", "raised"} /\ params' = params
        /\ pc \in (InCall \ {"log"}) => i' = i
       ]_vars

\* C7 witness: the second batch's update has been applied, after the first's.
C7_Witness ==
  /\ pc = "metrics"
  /\ i = 1
  /\ params = <<<<(<<0, 0>>)>>, <<(<<0, 1>>)>>>>

\* C8: every train call starts with avg_loss and the four counters at zero, so
\* what a call accumulates comes from its own batches only; the criterion and
\* the optimizer are never replaced or reset by train.
C8_FreshAccumulators ==
  /\ [](pc \in InCall =>
          /\ IsAverage(avg_loss, losses, 1)
          /\ total_element_NSP <= Counted * batch_size
          /\ total_correct_NSP <= total_element_NSP
          /\ total_element_MLM <= Counted * batch_size * seq_len
          /\ total_correct_MLM <= total_element_MLM)
  /\ [][/\ pc = "idle" /\ pc' = "fetch" =>
             /\ avg_loss' = <<0, 1>>
             /\ total_correct_NSP' = 0
             /\ total_element_NSP' = 0
             /\ total_correct_MLM' = 0
             /\ total_element_MLM' = 0
        /\ criterion' = criterion
        /\ optimizer'.id = optimizer.id
        /\ optimizer'.steps >= optimizer.steps
       ]_vars

\* C8 witness: the second call starts at zero although the first counted a
\* batch, with the optimizer's state carried over.
C8_Witness ==
  /\ epoch = 1
  /\ pc = "fetch"
  /\ i = 0
  /\ total_element_NSP = 0
  /\ total_element_MLM = 0
  /\ optimizer.steps = 1

\* C9 as stated: a division by zero in an accuracy figure does not stop
\* training: with batches to process, the call never ends in an uncaught error.
C9_DivisionByZeroGoesOn ==
  n_batches > 0 => pc # "raised"

\* C9 amended: a division by zero in an accuracy figure or in the summary's
\* average is not guarded: it raises before the line is printed and ends the
\* run: no later batch is processed and no later line is printed.
C9_DivisionByZeroRaises ==
  /\ [](pc = "raised" => n_batches = 0 \/ total_element_MLM = 0)
  /\ [][/\ pc = "log" /\ i % log_freq = 0 /\ total_element_MLM = 0 =>
             pc' = "raised" /\ UNCHANGED stdout
        /\ pc = "summary" /\ (n_batches = 0 \/ total_element_MLM = 0) =>
             pc' = "raised" /\ UNCHANGED stdout
        /\ pc = "raised" => FALSE
       ]_vars

\* C9 witness: the first of three batches has no masked position: the call has
\* raised at its log line, after its optimizer update, with two batches left.
C9_Witness ==
  /\ pc = "raised"
  /\ n_batches = 3
  /\ i = 0
  /\ total_element_MLM = 0
  /\ optimizer.steps = 1
  /\ n_log = 0

\* C10: a batch whose mask_ids are all 0 adds nothing to the MLM counters, its
\* MLM loss term is NaN, never zero, and so are its loss, the running sum and
\* every running average and epoch average reported afterwards in the call.
C10_AllSentinelBatch ==
  /\ [](/\ pc \in InBatch /\ AllSentinel =>
             /\ MLM_loss.n = 0
             /\ IsNaN(MLM_loss.val)
             /\ IsNaN(loss)
             /\ IsNaN(avg_loss)
        /\ pc \in InCall /\ (\E j \in blank : j < Len(losses)) => IsNaN(avg_loss)
        /\ pc \in InCall /\ last_line.kind = "batch"
             /\ (\E j \in blank : j <= last_line.idx) => IsNaN(last_line.AvgLoss)
        /\ pc \in InCall /\ last_line.kind = "epoch" /\ blank # {} =>
             IsNaN(last_line.TotalLoss))
  /\ [][pc = "metrics" /\ AllSentinel =>
          /\ total_element_MLM' = total_element_MLM
          /\ total_correct_MLM' = total_correct_MLM]_vars

\* C10 witness: the second batch has no masked position; the line for the
\* third batch reports NaN as the running average.
C10_Witness ==
  /\ blank = {1}
  /\ last_line.kind = "batch"
  /\ last_line.idx = 2
  /\ IsNaN(last_line.AvgLoss)
  /\ total_element_MLM = 2

====
